---- MODULE Spec2Model ----
(***************************************************************************)
(* MiudinhoAI (app.py): the retrieval-augmented search tab.                *)
(*                                                                         *)
(* One Streamlit session: every script run (rerun) loads the index through *)
(* the resource cache, and a press of "Buscar Resposta" runs               *)
(*   expand_query_with_gemini -> buscar_chunks_relevantes                  *)
(*                            -> gerar_resposta_com_busca.                 *)
(* The blocking external calls (generate_content, embed_content,           *)
(* index.search) are modelled as a call step and a return step, so the     *)
(* code between two calls is one action.                                   *)
(*                                                                         *)
(* Strings are sequences of one-character strings, so that strip() and     *)
(* split('\n') are computed and not assumed.                               *)
(***************************************************************************)
EXTENDS Integers, Sequences, FiniteSets, TLC

VARIABLES
    artifacts,         \* the index/mapping files on disk: "ok", "missing", "corrupt"
    cache,             \* st.cache_resource entry of load_faiss_index
    runs,              \* script runs of this process so far
    pc,                \* where the script run stands
    user_query,        \* st.text_input value
    expanded_queries,  \* result of expand_query_with_gemini
    queries,           \* parameter of buscar_chunks_relevantes
    k,                 \* parameter of buscar_chunks_relevantes
    query_vectors,     \* np.array(result['embedding'])
    indices,           \* second component of index.search(query_vectors, k)
    lookups,           \* the idx values used in metadata[idx], in order
    chunks_relevantes, \* result of buscar_chunks_relevantes
    prompt,            \* the grounding prompt built by gerar_resposta_com_busca
    resposta_final,    \* result of gerar_resposta_com_busca
    calls,             \* external calls issued in this script run, in order
    returns,           \* their outcomes, in order
    pending            \* external calls issued and not yet returned

vars == <<artifacts, cache, runs, pc, user_query, expanded_queries, queries, k,
          query_vectors, indices, lookups, chunks_relevantes, prompt,
          resposta_final, calls, returns, pending>>

----------------------------------------------------------------------------
(* Bounds *)

NSlots == 3          \* vectors in the index (slots 0..NSlots-1)
MaxRuns == 2         \* script runs of one process
AppMaxText == 1      \* characters of an expansion response in the app
FnMaxText == 9       \* characters of an expansion response, function level
MaxK == 2            \* k of buscar_chunks_relevantes, function level
MaxQueries == 2      \* queries of buscar_chunks_relevantes, function level

(* Program constants *)

K_VALUE == 15
Sentinel == -1

Slots == 0 .. (NSlots - 1)

----------------------------------------------------------------------------
(* Strings *)

NL == "\n"
Alphabet == {"a", " ", NL}

Texts(n) == UNION {[1 .. m -> Alphabet] : m \in 0 .. n}

IsSpace(c) == c \in {" ", NL}

RECURSIVE lstrip(_)
lstrip(s) ==
    IF s = <<>> THEN s
    ELSE IF IsSpace(Head(s)) THEN lstrip(Tail(s)) ELSE s

RECURSIVE rstrip(_)
rstrip(s) ==
    IF s = <<>> THEN s
    ELSE IF IsSpace(s[Len(s)]) THEN rstrip(SubSeq(s, 1, Len(s) - 1)) ELSE s

strip(s) == rstrip(lstrip(s))

RECURSIVE split(_)
split(s) ==
    IF \A i \in 1 .. Len(s) : s[i] # NL
    THEN <<s>>
    ELSE LET i == CHOOSE j \in 1 .. Len(s) :
                      s[j] = NL /\ \A h \in 1 .. (j - 1) : s[h] # NL
         IN  <<SubSeq(s, 1, i - 1)>> \o split(SubSeq(s, i + 1, Len(s)))

NonEmpty(s) == s # <<>>

\* [line.strip() for line in text.strip().split('\n') if line.strip()]
ParseLines(text) ==
    LET parts == split(strip(text))
        stripped == [i \in 1 .. Len(parts) |-> strip(parts[i])]
    IN  SelectSeq(stripped, NonEmpty)

Insert0(list, x) == <<x>> \o list

Range(seq) == {seq[i] : i \in DOMAIN seq}

IsPrefix(s, t) == Len(s) <= Len(t) /\ \A i \in DOMAIN s : s[i] = t[i]

\* The rows of a search result, one after the other.
RECURSIVE Flatten(_)
Flatten(rows) == IF rows = <<>> THEN <<>> ELSE Head(rows) \o Flatten(Tail(rows))

----------------------------------------------------------------------------
(* The external services' answers *)

\* generate_content: a response whose .text reads ("text"), a response whose
\* .text raises, e.g. a safety block ("blocked"), or a raised error ("error").
TextResponse(t) == [kind |-> "text", text |-> t]
FailedResponse(kind) == [kind |-> kind, text |-> <<>>]
FailureKinds == {"error", "blocked"}

\* One row of index.search: up to k distinct slots, nearest first, padded with
\* the sentinel to length k.
InjectiveSeqs(n) ==
    UNION {{f \in [1 .. m -> Slots] : \A i, j \in 1 .. m : i # j => f[i] # f[j]} :
           m \in 0 .. n}

Min(a, b) == IF a < b THEN a ELSE b

PadRow(p, kk) == [j \in 1 .. kk |-> IF j <= Len(p) THEN p[j] ELSE Sentinel]

Rows(kk) == {PadRow(p, kk) : p \in InjectiveSeqs(Min(kk, NSlots))}

\* indices: one row per query vector.
SearchResults(n, kk) == [1 .. n -> Rows(kk)]

----------------------------------------------------------------------------
(* load_faiss_index *)

\* The chunk mapping: one chunk per slot, several chunks per source file.
metadata == [s \in Slots |-> [source_file |-> s \div 2, text |-> s]]

\* metadata[idx] of a Python list: a negative idx counts from the end.
ChunkAt(idx) == IF idx < 0 THEN metadata[NSlots + idx] ELSE metadata[idx]

\* The body of load_faiss_index: FileNotFoundError is caught and gives
\* (None, None); any other exception (a corrupt file) propagates.
ReadArtifacts(files) ==
    CASE files = "ok" -> "loaded"
      [] files = "missing" -> "none"
      [] OTHER -> "raise"

\* @st.cache_resource: a returned value is stored, a raised exception is not.
load_faiss_index(entry, files) ==
    IF entry # "empty"
    THEN [value |-> entry, cache |-> entry]
    ELSE LET v == ReadArtifacts(files)
         IN  [value |-> v, cache |-> IF v = "raise" THEN "empty" ELSE v]

\* The test left out: the search tab runs whatever the load gave.
IndexLoaded_Always(index) == TRUE

\* if index is not None:
IndexLoaded(index) == index # "none"

----------------------------------------------------------------------------
(* expand_query_with_gemini *)

Returned(v) == [raised |-> FALSE, value |-> v]
Raised == [raised |-> TRUE, value |-> <<>>]

\* The original question added at the end of the list.
expand_appends_original(q, response) ==
    IF response.kind = "text"
    THEN Returned(Append(ParseLines(response.text), q))
    ELSE Returned(<<q>>)

\* No except clause: a failure of the call leaves the function as it came.
expand_without_fallback(q, response) ==
    IF response.kind = "text"
    THEN Returned(Insert0(ParseLines(response.text), q))
    ELSE Raised

expand_query_with_gemini(q, response) ==
    IF response.kind = "text"
    THEN Returned(Insert0(ParseLines(response.text), q))
    ELSE Returned(<<q>>)

----------------------------------------------------------------------------
(* buscar_chunks_relevantes *)

\* The set of lines 73-78 as CPython keeps it: an open-addressing table of
\* PySet_MINSIZE entries that grows when three fifths full. A key's first
\* place is its hash masked to the table; an int below 2^61 - 1, Python's or
\* numpy's, is its own hash.
PySet_MINSIZE == 8
LINEAR_PROBES == 9
PERTURB_SHIFT == 5

PyHash(key) == key

RECURSIVE Pow2(_)
Pow2(n) == IF n = 0 THEN 1 ELSE 2 * Pow2(n - 1)

NoEntry == [used |-> FALSE, key |-> 0]

EmptySet(size) == [table |-> [i \in 0 .. (size - 1) |-> NoEntry], mask |-> size - 1, fill |-> 0]

\* The entry for key: the first, along the probe sequence that starts at i,
\* that is unused or holds key.
RECURSIVE Probe(_, _, _, _, _)
Probe(table, mask, key, i, perturb) ==
    LET probes == IF i + LINEAR_PROBES <= mask THEN LINEAR_PROBES ELSE 0
        hits == {j \in i .. (i + probes) : ~table[j].used \/ table[j].key = key}
    IN  IF hits # {}
        THEN CHOOSE j \in hits : \A h \in hits : j <= h
        ELSE LET next == perturb \div Pow2(PERTURB_SHIFT)
             IN  Probe(table, mask, key, (i * 5 + 1 + next) % (mask + 1), next)

Place(so, key) == Probe(so.table, so.mask, key, PyHash(key) % (so.mask + 1), PyHash(key))

\* The keys in table order: the order in which a set is iterated.
RECURSIVE TableKeys(_, _, _)
TableKeys(table, i, mask) ==
    IF i > mask THEN <<>>
    ELSE (IF table[i].used THEN <<table[i].key>> ELSE <<>>)
             \o TableKeys(table, i + 1, mask)

SetIter(so) == TableKeys(so.table, 0, so.mask)

RECURSIVE NewSize(_, _)
NewSize(size, minused) == IF size <= minused THEN NewSize(2 * size, minused) ELSE size

SetInsertClean(so, key) ==
    [so EXCEPT !.table[Place(so, key)] = [used |-> TRUE, key |-> key],
               !.fill = so.fill + 1]

RECURSIVE InsertAll(_, _)
InsertAll(so, keys) ==
    IF keys = <<>> THEN so ELSE InsertAll(SetInsertClean(so, Head(keys)), Tail(keys))

\* set_table_resize: the entries move to the new table in table order.
SetTableResize(so, minused) ==
    InsertAll(EmptySet(NewSize(PySet_MINSIZE, minused)), SetIter(so))

\* set.add
SetAdd(so, key) ==
    IF so.table[Place(so, key)].used
    THEN so
    ELSE LET added == SetInsertClean(so, key)
         IN  IF added.fill * 5 < added.mask * 3
             THEN added
             ELSE SetTableResize(added, added.fill * 4)

\* The test read as "a slot is a positive number": slot 0 is dropped too.
IsSlot_Positive(s) == s > 0

\* Line 77: if idx != -1
IsSlot(s) == s # Sentinel

RECURSIVE AddAll(_, _)
AddAll(so, cells) ==
    IF cells = <<>> THEN so
    ELSE AddAll(IF IsSlot(Head(cells)) THEN SetAdd(so, Head(cells)) ELSE so,
                Tail(cells))

\* Only the first query's row is read.
unique_indices_first_row(idx) ==
    IF idx = <<>> THEN EmptySet(PySet_MINSIZE)
    ELSE AddAll(EmptySet(PySet_MINSIZE), idx[1])

\* Lines 73-78: every cell of every row, in order, is added unless it is -1.
unique_indices(idx) == AddAll(EmptySet(PySet_MINSIZE), Flatten(idx))

\* The slots collected in a list: nothing removes a slot found twice.
buscar_lookups_list(idx) == SelectSeq(Flatten(idx), IsSlot)

\* Line 81: [metadata[idx] for idx in unique_indices], in the set's order.
buscar_lookups(idx) == SetIter(unique_indices(idx))

----------------------------------------------------------------------------
(* gerar_resposta_com_busca *)

ErrPrefix == "Ocorreu um erro ao gerar a resposta: "

\* Lines 85-108: the question and, for every chunk, its source and its text.
BuildPrompt(query, chunks) ==
    [query |-> query,
     docs |-> [i \in 1 .. Len(chunks) |-> <<chunks[i].source_file, chunks[i].text>>]]

NoPrompt == [query |-> <<>>, docs |-> <<>>]

\* No except clause around generate_content.
gerar_without_fallback(query, chunks, response) ==
    IF response.kind = "text"
    THEN Returned(strip(response.text))
    ELSE Raised

gerar_resposta_com_busca(query, chunks, response) ==
    IF response.kind = "text"
    THEN Returned(strip(response.text))
    ELSE Returned(<<ErrPrefix, response.kind>>)

AnswerTexts == {<<"a">>, <<"a", NL>>}

----------------------------------------------------------------------------
(* The script *)

UserQueries == {<<>>, <<"a">>}
FnQueries == {<<>>, <<"a">>, <<" ", "a">>}
AppTexts == Texts(AppMaxText)
FnTexts == Texts(FnMaxText)

\* A script run has ended: by reaching the end of the script or by an
\* exception that Streamlit reports.
Finished ==
    pc \in {"start", "load_error", "no_index", "idle", "ask_query",
            "nothing_found", "displayed", "expand_raised", "buscar_raised",
            "gerar_raised"}

\* The names a script run binds are unbound at the start of the next one.
FreshRun ==
    /\ expanded_queries' = <<>>
    /\ queries' = <<>>
    /\ k' = 0
    /\ query_vectors' = <<>>
    /\ indices' = <<>>
    /\ lookups' = <<>>
    /\ chunks_relevantes' = <<>>
    /\ prompt' = NoPrompt
    /\ resposta_final' = <<>>
    /\ returns' = <<>>

Init ==
    /\ artifacts \in {"ok", "missing", "corrupt"}
    /\ cache = "empty"
    /\ runs = 0
    /\ pc = "start"
    /\ user_query = <<>>
    /\ expanded_queries = <<>>
    /\ queries = <<>>
    /\ k = 0
    /\ query_vectors = <<>>
    /\ indices = <<>>
    /\ lookups = <<>>
    /\ chunks_relevantes = <<>>
    /\ prompt = NoPrompt
    /\ resposta_final = <<>>
    /\ calls = <<>>
    /\ returns = <<>>
    /\ pending = {}

\* Line 215 raises: the script run ends there.
RunLoadError ==
    /\ Finished /\ runs < MaxRuns
    /\ load_faiss_index(cache, artifacts).value = "raise"
    /\ runs' = runs + 1
    /\ cache' = load_faiss_index(cache, artifacts).cache
    /\ pc' = "load_error"
    /\ user_query' = <<>>
    /\ calls' = <<>> /\ pending' = {}
    /\ FreshRun
    /\ UNCHANGED artifacts

\* Line 217: index is None, the search tab offers no input.
RunNoIndex ==
    /\ Finished /\ runs < MaxRuns
    /\ load_faiss_index(cache, artifacts).value # "raise"
    /\ ~IndexLoaded(load_faiss_index(cache, artifacts).value)
    /\ runs' = runs + 1
    /\ cache' = load_faiss_index(cache, artifacts).cache
    /\ pc' = "no_index"
    /\ user_query' = <<>>
    /\ calls' = <<>> /\ pending' = {}
    /\ FreshRun
    /\ UNCHANGED artifacts

\* Line 223: the button was not pressed in this run.
RunIdle ==
    /\ Finished /\ runs < MaxRuns
    /\ load_faiss_index(cache, artifacts).value # "raise"
    /\ IndexLoaded(load_faiss_index(cache, artifacts).value)
    /\ runs' = runs + 1
    /\ cache' = load_faiss_index(cache, artifacts).cache
    /\ pc' = "idle"
    /\ user_query' \in UserQueries
    /\ calls' = <<>> /\ pending' = {}
    /\ FreshRun
    /\ UNCHANGED artifacts

\* Lines 224, 260-261: the button was pressed on an empty question.
RunEmptyQuery ==
    /\ Finished /\ runs < MaxRuns
    /\ load_faiss_index(cache, artifacts).value # "raise"
    /\ IndexLoaded(load_faiss_index(cache, artifacts).value)
    /\ runs' = runs + 1
    /\ cache' = load_faiss_index(cache, artifacts).cache
    /\ pc' = "ask_query"
    /\ user_query' = <<>>
    /\ calls' = <<>> /\ pending' = {}
    /\ FreshRun
    /\ UNCHANGED artifacts

\* Lines 223-227 and 190: the button was pressed on a question; the
\* expansion call is issued.
RunSearch ==
    /\ Finished /\ runs < MaxRuns
    /\ load_faiss_index(cache, artifacts).value # "raise"
    /\ IndexLoaded(load_faiss_index(cache, artifacts).value)
    /\ runs' = runs + 1
    /\ cache' = load_faiss_index(cache, artifacts).cache
    /\ \E q \in UserQueries : q # <<>> /\ user_query' = q
    /\ pc' = "expand_pending"
    /\ calls' = <<"expand">> /\ pending' = {"expand"}
    /\ FreshRun
    /\ UNCHANGED artifacts

\* Lines 190-204: generate_content comes back; expand_query_with_gemini ends.
ExpandReturn(response) ==
    /\ pc = "expand_pending"
    /\ LET r == expand_query_with_gemini(user_query, response)
       IN  /\ expanded_queries' = r.value
           /\ pc' = IF r.raised THEN "expand_raised" ELSE "expand_returned"
    /\ pending' = pending \ {"expand"}
    /\ returns' = Append(returns, [call |-> "expand", ok |-> response.kind = "text"])
    /\ UNCHANGED <<artifacts, cache, runs, user_query, queries, k, query_vectors,
                   indices, lookups, chunks_relevantes, prompt, resposta_final,
                   calls>>

ExpandOk(texts) ==
    /\ pc = "expand_pending"
    /\ \E t \in texts : ExpandReturn(TextResponse(t))

ExpandFails ==
    /\ pc = "expand_pending"
    /\ \E e \in FailureKinds : ExpandReturn(FailedResponse(e))

\* Lines 230-235 and 61: buscar_chunks_relevantes is entered with the
\* expanded queries and issues the embedding call.
HandlerCallsBuscar ==
    /\ pc = "expand_returned"
    /\ queries' = expanded_queries
    /\ k' = K_VALUE
    /\ calls' = Append(calls, "embed")
    /\ pending' = pending \cup {"embed"}
    /\ pc' = "embed_pending"
    /\ UNCHANGED <<artifacts, cache, runs, user_query, expanded_queries,
                   query_vectors, indices, lookups, chunks_relevantes, prompt,
                   resposta_final, returns>>

\* Lines 61-70: one vector per query; index.search is called.
EmbedOk ==
    /\ pc = "embed_pending"
    /\ query_vectors' = [i \in 1 .. Len(queries) |-> "vec"]
    /\ returns' = Append(returns, [call |-> "embed", ok |-> TRUE])
    /\ calls' = Append(calls, "search")
    /\ pending' = (pending \ {"embed"}) \cup {"search"}
    /\ pc' = "search_pending"
    /\ UNCHANGED <<artifacts, cache, runs, user_query, expanded_queries, queries,
                   k, indices, lookups, chunks_relevantes, prompt, resposta_final>>

\* The failure caught inside the function, which then returns no chunks.
EmbedFails_ReturnsEmpty ==
    /\ pc = "embed_pending"
    /\ returns' = Append(returns, [call |-> "embed", ok |-> FALSE])
    /\ pending' = pending \ {"embed"}
    /\ pc' = "buscar_returned"
    /\ UNCHANGED <<artifacts, cache, runs, user_query, expanded_queries, queries,
                   k, query_vectors, indices, lookups, chunks_relevantes, prompt,
                   resposta_final, calls>>

\* The failure ignored: the search is run on no vectors.
EmbedFails_SearchesAnyway ==
    /\ pc = "embed_pending"
    /\ returns' = Append(returns, [call |-> "embed", ok |-> FALSE])
    /\ calls' = Append(calls, "search")
    /\ pending' = (pending \ {"embed"}) \cup {"search"}
    /\ pc' = "search_pending"
    /\ UNCHANGED <<artifacts, cache, runs, user_query, expanded_queries, queries,
                   k, query_vectors, indices, lookups, chunks_relevantes, prompt,
                   resposta_final>>

\* Line 61 raises: nothing catches it, in the function or in the script.
EmbedFails ==
    /\ pc = "embed_pending"
    /\ returns' = Append(returns, [call |-> "embed", ok |-> FALSE])
    /\ pending' = pending \ {"embed"}
    /\ pc' = "buscar_raised"
    /\ UNCHANGED <<artifacts, cache, runs, user_query, expanded_queries, queries,
                   k, query_vectors, indices, lookups, chunks_relevantes, prompt,
                   resposta_final, calls>>

\* Lines 70-81: the search comes back; the slots are merged and resolved.
SearchOk ==
    /\ pc = "search_pending"
    /\ \E m \in SearchResults(Len(query_vectors), k) :
          /\ indices' = m
          /\ lookups' = buscar_lookups(m)
          /\ chunks_relevantes' =
                 [i \in 1 .. Len(buscar_lookups(m)) |-> ChunkAt(buscar_lookups(m)[i])]
    /\ returns' = Append(returns, [call |-> "search", ok |-> TRUE])
    /\ pending' = pending \ {"search"}
    /\ pc' = "buscar_returned"
    /\ UNCHANGED <<artifacts, cache, runs, user_query, expanded_queries, queries,
                   k, query_vectors, prompt, resposta_final, calls>>

\* Line 70 raises.
SearchFails ==
    /\ pc = "search_pending"
    /\ returns' = Append(returns, [call |-> "search", ok |-> FALSE])
    /\ pending' = pending \ {"search"}
    /\ pc' = "buscar_raised"
    /\ UNCHANGED <<artifacts, cache, runs, user_query, expanded_queries, queries,
                   k, query_vectors, indices, lookups, chunks_relevantes, prompt,
                   resposta_final, calls>>

\* The test written as "chunks_relevantes is None", which a list never is.
NoChunks_IsNone(chunks) == FALSE

\* Line 237: not chunks_relevantes
NoChunks(chunks) == chunks = <<>>

\* Lines 237-238: the warning that nothing was found.
HandlerNothingFound ==
    /\ pc = "buscar_returned"
    /\ NoChunks(chunks_relevantes)
    /\ pc' = "nothing_found"
    /\ UNCHANGED <<artifacts, cache, runs, user_query, expanded_queries, queries,
                   k, query_vectors, indices, lookups, chunks_relevantes, prompt,
                   resposta_final, calls, returns, pending>>

\* Lines 239-242 and 85-110: the prompt is built and the synthesis call issued.
HandlerCallsGerar ==
    /\ pc = "buscar_returned"
    /\ ~NoChunks(chunks_relevantes)
    /\ prompt' = BuildPrompt(user_query, chunks_relevantes)
    /\ calls' = Append(calls, "synthesize")
    /\ pending' = pending \cup {"synthesize"}
    /\ pc' = "synth_pending"
    /\ UNCHANGED <<artifacts, cache, runs, user_query, expanded_queries, queries,
                   k, query_vectors, indices, lookups, chunks_relevantes,
                   resposta_final, returns>>

\* Lines 109-113: generate_content comes back; gerar_resposta_com_busca ends.
SynthReturn(response) ==
    /\ pc = "synth_pending"
    /\ LET r == gerar_resposta_com_busca(user_query, chunks_relevantes, response)
       IN  /\ resposta_final' = r.value
           /\ pc' = IF r.raised THEN "gerar_raised" ELSE "gerar_returned"
    /\ returns' = Append(returns, [call |-> "synthesize", ok |-> response.kind = "text"])
    /\ pending' = pending \ {"synthesize"}
    /\ UNCHANGED <<artifacts, cache, runs, user_query, expanded_queries, queries,
                   k, query_vectors, indices, lookups, chunks_relevantes, prompt,
                   calls>>

SynthOk ==
    /\ pc = "synth_pending"
    /\ \E t \in AnswerTexts : SynthReturn(TextResponse(t))

SynthFails ==
    /\ pc = "synth_pending"
    /\ \E e \in FailureKinds : SynthReturn(FailedResponse(e))

\* Lines 244-259: the answer and the chunks it rests on are rendered.
HandlerDisplay ==
    /\ pc = "gerar_returned"
    /\ pc' = "displayed"
    /\ UNCHANGED <<artifacts, cache, runs, user_query, expanded_queries, queries,
                   k, query_vectors, indices, lookups, chunks_relevantes, prompt,
                   resposta_final, calls, returns, pending>>

AppExpandOk == ExpandOk(AppTexts)

Next ==
    \/ RunLoadError
    \/ RunNoIndex
    \/ RunIdle
    \/ RunEmptyQuery
    \/ RunSearch
    \/ AppExpandOk
    \/ ExpandFails
    \/ HandlerCallsBuscar
    \/ EmbedOk
    \/ EmbedFails
    \/ SearchOk
    \/ SearchFails
    \/ HandlerNothingFound
    \/ HandlerCallsGerar
    \/ SynthOk
    \/ SynthFails
    \/ HandlerDisplay

Spec == Init /\ [][Next]_vars

----------------------------------------------------------------------------
(* The functions on their own, for every argument *)

FnQueryLists == UNION {[1 .. n -> {<<"a">>}] : n \in 1 .. MaxQueries}

InitFn ==
    /\ artifacts = "ok"
    /\ cache = "loaded"
    /\ runs = 0
    /\ expanded_queries = <<>>
    /\ query_vectors = <<>>
    /\ indices = <<>>
    /\ lookups = <<>>
    /\ chunks_relevantes = <<>>
    /\ prompt = NoPrompt
    /\ resposta_final = <<>>
    /\ returns = <<>>
    /\ \/ /\ pc = "expand_pending"
          /\ user_query \in FnQueries
          /\ queries = <<>>
          /\ k = 0
          /\ calls = <<"expand">>
          /\ pending = {"expand"}
       \/ /\ pc = "embed_pending"
          /\ user_query = <<>>
          /\ queries \in FnQueryLists
          /\ k \in 1 .. MaxK
          /\ calls = <<"embed">>
          /\ pending = {"embed"}

FnExpandOk == ExpandOk(FnTexts)

NextFn ==
    \/ FnExpandOk
    \/ ExpandFails
    \/ EmbedOk
    \/ EmbedFails
    \/ SearchOk
    \/ SearchFails

SpecFn == InitFn /\ [][NextFn]_vars

----------------------------------------------------------------------------
(* Properties *)

CallReturned(c) == \E i \in DOMAIN returns : returns[i].call = c
CallOk(c) == \E i \in DOMAIN returns : returns[i].call = c /\ returns[i].ok
CallFailed(c) == \E i \in DOMAIN returns : returns[i].call = c /\ ~returns[i].ok

Pipeline == <<"expand", "embed", "search", "synthesize">>

\* The cells of the search result in scan order: query by query, nearest first.
Scan == Flatten(indices)

\* Where slot s is first met in the scan (0: nowhere).
FirstSeenIn(scan, s) ==
    IF \E p \in DOMAIN scan : scan[p] = s
    THEN CHOOSE p \in DOMAIN scan : scan[p] = s /\ \A q \in 1 .. (p - 1) : scan[q] # s
    ELSE 0

SentinelCellsOf(scan) == {p \in DOMAIN scan : scan[p] = Sentinel}
DuplicateCellsOf(scan) ==
    {p \in DOMAIN scan : scan[p] # Sentinel /\ \E q \in 1 .. (p - 1) : scan[q] = scan[p]}

SentinelCells == SentinelCellsOf(Scan)
DuplicateCells == DuplicateCellsOf(Scan)

\* Some slot is returned for two different queries.
SlotSharedByQueries ==
    \E i, j \in DOMAIN indices :
        /\ i # j
        /\ \E s \in Range(indices[i]) : s # Sentinel /\ s \in Range(indices[j])

OnlySentinels ==
    /\ indices # <<>>
    /\ \A i \in DOMAIN indices : \A j \in DOMAIN indices[i] : indices[i][j] = Sentinel

ChunksFollowLookups ==
    /\ Len(chunks_relevantes) = Len(lookups)
    /\ \A i \in DOMAIN lookups :
          lookups[i] \in Slots /\ chunks_relevantes[i] = metadata[lookups[i]]

\* C1: whatever k, the queries and the search result (a slot returned for
\* several queries, rows padded with -1), the list buscar_chunks_relevantes
\* returns resolves no slot twice.
C1_NoSlotTwice ==
    pc = "buscar_returned" =>
        /\ \A i, j \in DOMAIN lookups : i # j => lookups[i] # lookups[j]
        /\ Len(chunks_relevantes) = Len(lookups)

C1_Witness ==
    /\ pc = "buscar_returned"
    /\ SlotSharedByQueries
    /\ SentinelCells # {}
    /\ Len(lookups) >= 2

\* C2: expand_query_with_gemini ends by returning, and what it returns is a
\* non-empty list whose first element is the question as given, whatever the
\* generative call gave: any number of lines, lines equal to the question, or
\* a failure.
C2_FirstIsOriginal ==
    CallReturned("expand") =>
        /\ pc # "expand_raised"
        /\ Len(expanded_queries) >= 1
        /\ expanded_queries[1] = user_query

C2_Witness ==
    /\ CallOk("expand")
    /\ user_query = <<"a">>
    /\ Len(expanded_queries) > 5
    /\ \E i \in 2 .. Len(expanded_queries) : expanded_queries[i] = user_query

\* C3: when the search gives only the sentinel for every query, the retriever
\* returns the empty list without raising, the synthesis call is not issued in
\* that run, and the run ends on the "nothing found" warning.
C3_EmptyRetrieval ==
    (CallOk("search") /\ OnlySentinels) =>
        /\ chunks_relevantes = <<>>
        /\ pc \in {"buscar_returned", "nothing_found"}
        /\ "synthesize" \notin Range(calls)
        /\ pc = "buscar_returned" =>
              (ENABLED HandlerNothingFound) /\ ~(ENABLED HandlerCallsGerar)

C3_Witness ==
    /\ pc = "nothing_found"
    /\ OnlySentinels
    /\ Len(indices) >= 2

\* C4: when the embedding call fails, buscar_chunks_relevantes raises to its
\* caller with no result at all, the index search is not run and
\* gerar_resposta_com_busca is not invoked in that run.
C4_EmbeddingFailureIsFatal ==
    CallFailed("embed") =>
        /\ pc = "buscar_raised"
        /\ chunks_relevantes = <<>>
        /\ lookups = <<>>
        /\ indices = <<>>
        /\ "search" \notin Range(calls)
        /\ "synthesize" \notin Range(calls)
        /\ pending = {}
        /\ ~(ENABLED HandlerCallsGerar)

C4_Witness ==
    /\ CallFailed("embed")
    /\ Len(queries) >= 2
    /\ pc = "buscar_raised"

IsErrorText(t) == Len(t) = 2 /\ t[1] = ErrPrefix /\ t[2] \in FailureKinds

\* C5: on a non-empty retrieval result, a failure of the generative call never
\* makes gerar_resposta_com_busca raise: it returns the text describing the
\* error, and the run goes on to display it.
C5_SynthesisFailureIsAnAnswer ==
    CallFailed("synthesize") =>
        /\ chunks_relevantes # <<>>
        /\ pc \in {"gerar_returned", "displayed"}
        /\ IsErrorText(resposta_final)
        /\ pc = "gerar_returned" => ENABLED HandlerDisplay

C5_Witness ==
    /\ CallFailed("synthesize")
    /\ pc = "displayed"
    /\ IsErrorText(resposta_final)

\* C6: when the generative call of the expansion fails (an error raised, or a
\* response whose text cannot be read), expand_query_with_gemini returns
\* exactly [question], and the run goes on to the embedding and the search
\* with that single query.
C6_ExpansionFailureDegrades ==
    CallFailed("expand") =>
        /\ expanded_queries = <<user_query>>
        /\ pc # "expand_raised"
        /\ pc = "expand_returned" => ENABLED HandlerCallsBuscar
        /\ pc # "expand_returned" =>
              /\ queries = <<user_query>>
              /\ "embed" \in Range(calls)

C6_Witness ==
    /\ CallFailed("expand")
    /\ pc = "search_pending"
    /\ queries = <<user_query>>
    /\ Len(query_vectors) = 1

\* C7: the slots buscar_chunks_relevantes resolves are exactly the slots other
\* than -1 that the search returned for some query; -1 is never used as a
\* subscript of metadata; the result has as many chunks as there are cells,
\* less the sentinels, less the repeated slots.
C7_ExactUnion ==
    pc = "buscar_returned" =>
        LET scan == Scan
        IN  /\ Range(lookups) = {v \in Range(scan) : v # Sentinel}
            /\ Sentinel \notin Range(lookups)
            /\ Len(lookups) =
                   Len(scan) - Cardinality(SentinelCellsOf(scan))
                             - Cardinality(DuplicateCellsOf(scan))
            /\ ChunksFollowLookups

C7_Witness ==
    /\ pc = "buscar_returned"
    /\ SentinelCells # {}
    /\ DuplicateCells # {}
    /\ Cardinality(Range(lookups)) >= 2
    /\ Len(indices) >= 2

\* C8: in one run the external calls are issued in the order expand, embed,
\* search, synthesize, each at most once and never two pending together:
\* embed after expand has returned, search after embed has succeeded,
\* synthesize after the search has returned a non-empty result.
C8_CallOrder ==
    /\ IsPrefix(calls, Pipeline)
    /\ Cardinality(pending) <= 1
    /\ pending \subseteq Range(calls)
    /\ \A c \in pending : calls[Len(calls)] = c /\ ~CallReturned(c)
    /\ "embed" \in Range(calls) => CallReturned("expand")
    /\ "search" \in Range(calls) => CallOk("embed")
    /\ "synthesize" \in Range(calls) => CallOk("search") /\ chunks_relevantes # <<>>

C8_Witness ==
    /\ calls = Pipeline
    /\ pc = "displayed"
    /\ CallFailed("expand")

\* C9: when the index or the chunk mapping cannot be loaded, the file missing
\* or corrupt, no run of the process ever issues an expansion, embedding,
\* search or synthesis call.
C9_NoRetrievalWithoutArtifacts ==
    artifacts # "ok" =>
        /\ calls = <<>>
        /\ pending = {}
        /\ returns = <<>>
        /\ pc \in {"start", "load_error", "no_index"}
        /\ ~(ENABLED RunSearch)

C9_Witness ==
    /\ artifacts = "missing"
    /\ runs >= 2
    /\ pc = "no_index"
    /\ cache = "none"

\* C10, as claimed: the returned chunks are in the order in which their slots
\* are first met when the rows are scanned query by query, nearest first.
C10_FirstEncounterOrder ==
    pc = "buscar_returned" =>
        LET scan == Scan
        IN  \A i, j \in DOMAIN lookups :
                i < j => FirstSeenIn(scan, lookups[i]) < FirstSeenIn(scan, lookups[j])

\* C10, as the code has it: the returned chunks are those of the slots met in
\* the scan, one chunk per slot, in the order in which the set of slots is
\* iterated, which need not be the order of first encounter.
C10_SomeOrderOfFirstEncounters ==
    pc = "buscar_returned" =>
        LET scan == Scan
        IN  /\ \A s \in Range(scan) \ {Sentinel} :
                  Cardinality({i \in DOMAIN lookups : lookups[i] = s}) = 1
            /\ \A i \in DOMAIN lookups : FirstSeenIn(scan, lookups[i]) > 0
            /\ ChunksFollowLookups

C10_Witness ==
    /\ pc = "buscar_returned"
    /\ Len(lookups) >= 2
    /\ \E i, j \in DOMAIN lookups :
          i < j /\ FirstSeenIn(Scan, lookups[i]) > FirstSeenIn(Scan, lookups[j])

====
